---- MODULE Spec2Model ----
(***************************************************************************)
(* A model of gitmodel.workspace.Workspace: several Workspace instances    *)
(* (processes) share one object store.  The store holds references and     *)
(* commits; every instance holds its own head and index in memory.         *)
(*                                                                         *)
(* Object ids are content derived, so a tree is modelled by its content    *)
(* (two trees have the same oid iff they have the same entries).  A commit *)
(* carries a timestamped signature, so every created commit is a new       *)
(* object; its oid is its position in the sequence commits.                *)
(***************************************************************************)
EXTENDS Integers, Sequences, FiniteSets, TLC

\* ---------------------------------------------------------------- bounds
Procs == {1, 2}
Branches == {"master", "dev"}
LockIds == {"a", "b"}
Contents == {"x", "y"}
Messages == {"m"}
MaxCommits == 2
MaxEntries == 2

\* ------------------------------------------------------- store vocabulary
\* lookup_reference(name) raises KeyError: the reference is absent
NoRef == -1
\* the oid of create_blob(''), the target of a lock reference
EmptyBlob == 0

HeadRef(name) == <<"heads", name>>
LockRef(id) == <<"locks", id>>
HeadRefs == {HeadRef(n) : n \in Branches}
RefNames == HeadRefs \cup {LockRef(i) : i \in LockIds}

\* A path is the sequence of its slash-separated segments: "d/b" is <<"d", "b">>.
FullPaths == {<<"d", "b">>}
\* os.path.split(path): (directory, name)
Split(path) == <<SubSeq(path, 1, Len(path) - 1), path[Len(path)]>>
\* os.path.join(directory, name)
Join(dir, name) == Append(dir, name)
NoEntry == "<none>"
\* a is b or an ancestor of b
IsPrefix(a, b) == Len(a) <= Len(b) /\ SubSeq(b, 1, Len(a)) = a
\* The paths of the specification of the tree builder alone: a blob at the
\* root, and a name of the root that is a blob or a tree of two blobs.
TreePaths == {<<"a">>, <<"d">>, <<"d", "b">>, <<"d", "c">>}
TreeDirs == {<<>>, <<"d">>}
NamesAt(dir) == {q[Len(q)] : q \in {r \in TreePaths : Split(r)[1] = dir}}
\* the lists of (name, blob) entries add is called with at a directory
EntryLists(dir) ==
    UNION {[1..n -> NamesAt(dir) \X Contents] : n \in 1..MaxEntries}
\* A tree, by content: the blob at every path below its root.
Tree == [FullPaths -> Contents \cup {NoEntry}]
\* repo.TreeBuilder().write(): the tree without entries
EmptyTree == [q \in FullPaths |-> NoEntry]
\* len(tree) > 0: the truth value of a pygit2 Tree object
Truthy(tree) == \E q \in FullPaths : tree[q] # NoEntry

VARIABLES
    refs,      \* the store's references: name -> target oid, or NoRef
    commits,   \* the store's commit objects, oid = position
    head,      \* Workspace.head of every instance
    index,     \* Workspace.index of every instance
    pc,        \* where every instance is in the call it is running
    loc,       \* the locals of the running call
    last       \* the call that finished last: instance, operation, outcome

vars == <<refs, commits, head, index, pc, loc, last>>

NoHead == <<"heads", "">>
\* msg, parents: the arguments of the running commit; lid: the lock id.
\* cos, cosmsg: inside commit_on_success(cosmsg).  History of the call, read
\* by the properties only: tip0, the target of head when commit() was
\* called; ctip and idx0, the target of head and the index when the
\* commit_on_success block was entered, kept until the block is left;
\* ncommit, the calls of commit() made by the block; ref and tree, the
\* arguments of a call of create_commit; added, the (path,
\* content) of the add_blob that the instance made right before it called
\* commit(), <<>> when its last call was another one.
NoLoc == [msg |-> "", parents |-> <<>>, lid |-> "", cos |-> FALSE,
          cosmsg |-> "", tip0 |-> NoRef, ctip |-> NoRef,
          idx0 |-> EmptyTree, ncommit |-> 0, added |-> <<>>,
          ref |-> <<>>, tree |-> EmptyTree]

\* the add_blob(path, content) that p made as the last finished call
JustAdded(p) ==
    IF last.p = p /\ last.op = "add_blob" THEN last.arg ELSE <<>>

\* Branch(repo, ref).tree, or the empty tree of diff() on an unborn branch
BranchTree(ref) ==
    IF refs[ref] = NoRef THEN EmptyTree ELSE commits[refs[ref]].tree

\* Workspace.diff / Workspace.has_changes
has_changes(p) == index[p] # BranchTree(head[p])

\* Workspace.locked
locked(id) == refs[LockRef(id)] # NoRef

\* git.build_path(repo, path, entries, index) for one entry (name, blob)
build_path(tree, dir, name, blob) ==
    [q \in DOMAIN tree |->
       IF q = Join(dir, name) THEN blob
       ELSE IF IsPrefix(Join(dir, name), q) THEN NoEntry
       ELSE tree[q]]

\* git.build_path with a list of entries: they are merged one after the other
RECURSIVE build_entries(_, _, _)
build_entries(tree, dir, entries) ==
    IF entries = <<>> THEN tree
    ELSE build_entries(build_path(tree, dir, entries[1][1], entries[1][2]),
                       dir, Tail(entries))

\* a segment of the path is a blob of the tree: a structural conflict
path_conflict(tree, dir) ==
    \E k \in 1..Len(dir) :
       /\ SubSeq(dir, 1, k) \in DOMAIN tree
       /\ tree[SubSeq(dir, 1, k)] # NoEntry

\* What reading a path of a tree returns: the blob there, or the subtree
\* there (by content), or nothing.
ObjectId(tree, q) ==
    LET below == {r \in DOMAIN tree :
                    IsPrefix(q, r) /\ r # q /\ tree[r] # NoEntry}
    IN  IF q \in DOMAIN tree /\ tree[q] # NoEntry
        THEN [kind |-> "blob", blob |-> tree[q], sub |-> {}]
        ELSE IF below # {}
        THEN [kind |-> "tree", blob |-> NoEntry,
              sub |-> {<<r, tree[r]>> : r \in below}]
        ELSE [kind |-> "none", blob |-> NoEntry, sub |-> {}]

\* A store holding the lock references of held and nothing else, and no
\* Workspace constructed on it yet.
InitStore(held) ==
    /\ refs = [r \in RefNames |->
                 IF r \in {LockRef(i) : i \in held} THEN EmptyBlob ELSE NoRef]
    /\ commits = <<>>
    /\ head = [p \in Procs |-> NoHead]
    /\ index = [p \in Procs |-> EmptyTree]
    /\ pc = [p \in Procs |-> "new"]
    /\ loc = [p \in Procs |-> NoLoc]
    /\ last = [p |-> 0, op |-> "", arg |-> "", out |-> "", line |-> 0]

\* A freshly initialised repository
Init == InitStore({})

\* The running call of p ends: it returns out, or raises out at a source line.
End(p, op, arg, out, line) ==
    /\ pc' = [pc EXCEPT ![p] = "idle"]
    /\ loc' = [loc EXCEPT ![p] = NoLoc]
    /\ last' = [p |-> p, op |-> op, arg |-> arg, out |-> out, line |-> line]

Finish(p, op, out) == End(p, op, "", out, 0)
Raise(p, op, exc, line) == End(p, op, "", exc, line)

\* [mutant of init_index] the index is left empty whatever the branch holds
init_index_empty(ref) == EmptyTree

\* Workspace.__init__, lines 52-58: the empty tree on an unborn branch, else
\* update_index(head), whose pending-changes test is skipped (index is None)
init_index(ref) ==
    IF refs[ref] = NoRef THEN EmptyTree ELSE BranchTree(ref)

\* [mutant of Construct] initial_branch is ignored: head is master
Construct_on_master(p, ref) ==
    /\ pc[p] = "new"
    /\ head' = [head EXCEPT ![p] = HeadRef("master")]
    /\ index' = [index EXCEPT ![p] = init_index(HeadRef("master"))]
    /\ Finish(p, "init", "ok")
    /\ UNCHANGED <<refs, commits>>

\* Workspace.__init__(repo_path, initial_branch)
Construct(p, ref) ==
    /\ pc[p] = "new"
    /\ head' = [head EXCEPT ![p] = ref]
    /\ index' = [index EXCEPT ![p] = init_index(ref)]
    /\ Finish(p, "init", "ok")
    /\ UNCHANGED <<refs, commits>>

\* [mutant of add_blob] the blob is created and the index is left as it is
add_blob_blob_only(p, path, content) ==
    /\ pc[p] \in {"idle", "cos_body"}
    /\ IF pc[p] = "idle"
         THEN End(p, "add_blob", <<path, content>>, "ok", 0)
         ELSE UNCHANGED <<pc, loc, last>>
    /\ UNCHANGED <<refs, commits, head, index>>

\* Workspace.add_blob(path, content) -> Workspace.add(dir, [(name, blob, mode)])
add_blob(p, path, content) ==
    /\ pc[p] \in {"idle", "cos_body"}
    /\ index' = [index EXCEPT ![p] =
                   build_path(index[p], Split(path)[1], Split(path)[2], content)]
    /\ IF pc[p] = "idle"
         THEN End(p, "add_blob", <<path, content>>, "ok", 0)
         ELSE UNCHANGED <<pc, loc, last>>
    /\ UNCHANGED <<refs, commits, head>>

\* the commits reachable from a commit through parents
RECURSIVE AncestorsIn(_, _)
AncestorsIn(objects, c) ==
    {c} \cup UNION {AncestorsIn(objects, objects[c].parents[i]) :
                      i \in 1..Len(objects[c].parents)}

Ancestors(c) == AncestorsIn(commits, c)

\* GIT_SORT_TIME: latest first; a commit's oid is its rank in time
RECURSIVE SortTime(_)
SortTime(S) ==
    IF S = {} THEN <<>>
    ELSE LET latest == CHOOSE c \in S : \A d \in S : d <= c
         IN  <<latest>> \o SortTime(S \ {latest})

\* repo.walk(oid, sort), line 285
repo_walk(oid) == SortTime(Ancestors(oid))

\* [mutant of walk_start] the walk starts at the oldest commit
walk_start_oldest(p) == 1

\* Workspace.walk, line 285: self.branch.oid
walk_start(p) == refs[head[p]]

\* Workspace.walk, lines 282-286; self.branch is None on an unborn branch
\* (lines 175-176), which has no attribute oid. The walker is made from the
\* tip on the first iteration and commits are immutable, so what it yields
\* is decided there.
walk(p) ==
    /\ pc[p] = "idle"
    /\ IF refs[head[p]] = NoRef
         THEN Raise(p, "walk", "AttributeError", 285)
         ELSE End(p, "walk", repo_walk(walk_start(p)), "ok", 0)
    /\ UNCHANGED <<refs, commits, head, index>>

\* [mutant of add] the entries are built on an empty tree, not on the index
add_on_empty(p, dir, entries) ==
    /\ pc[p] = "idle"
    /\ index' = [index EXCEPT ![p] =
                   build_entries([q \in DOMAIN index[p] |-> NoEntry],
                                 dir, entries)]
    /\ End(p, "add", <<dir, entries>>, "ok", 0)
    /\ UNCHANGED <<refs, commits, head>>

\* Workspace.add, lines 191-196
add(p, dir, entries) ==
    /\ pc[p] = "idle"
    /\ IF path_conflict(index[p], dir)
         THEN /\ End(p, "add", <<dir, entries>>, "conflict", 195)
              /\ UNCHANGED index
         ELSE /\ index' = [index EXCEPT ![p] =
                             build_entries(index[p], dir, entries)]
              /\ End(p, "add", <<dir, entries>>, "ok", 0)
    /\ UNCHANGED <<refs, commits, head>>

\* [mutant of start_point_of] the start_point argument is ignored
start_point_head(p, sp) == head[p]

\* Workspace.create_branch, lines 147-148; sp = "" is start_point=None
start_point_of(p, sp) == IF sp = "" THEN head[p] ELSE HeadRef(sp)

\* [mutant of create_branch] the instance is switched to the branch it has
\* created
create_branch_switches(p, name, sp) ==
    /\ pc[p] = "idle"
    /\ LET start_point == start_point_of(p, sp)
           branch_ref == HeadRef(name)
       IN  IF refs[start_point] = NoRef \/ refs[branch_ref] # NoRef
             THEN /\ Raise(p, "create_branch", "RepositoryError", 152)
                  /\ UNCHANGED <<refs, head>>
             ELSE /\ refs' = [refs EXCEPT ![branch_ref] = refs[start_point]]
                  /\ head' = [head EXCEPT ![p] = branch_ref]
                  /\ Finish(p, "create_branch", "ok")
    /\ UNCHANGED <<commits, index>>

\* Workspace.create_branch(name, start_point).  repo.create_reference
\* without force raises when the name is taken.
create_branch(p, name, sp) ==
    /\ pc[p] = "idle"
    /\ LET start_point == start_point_of(p, sp)
           branch_ref == HeadRef(name)
       IN  IF refs[start_point] = NoRef
             THEN /\ Raise(p, "create_branch", "RepositoryError", 152)
                  /\ UNCHANGED refs
             ELSE IF refs[branch_ref] # NoRef
               THEN /\ Raise(p, "create_branch", "ValueError", 157)
                    /\ UNCHANGED refs
               ELSE /\ refs' = [refs EXCEPT ![branch_ref] = refs[start_point]]
                    /\ Finish(p, "create_branch", "ok")
    /\ UNCHANGED <<commits, head, index>>

\* Workspace.update_index, line 181: "if self.index and self.has_changes()"
pending_changes(p) == Truthy(index[p]) /\ has_changes(p)

\* [mutant of set_branch] head is set and the index is kept (line 189 left
\* out)
set_branch_keeps_index(p, name) ==
    /\ pc[p] = "idle"
    /\ LET ref == HeadRef(name)
       IN  IF refs[ref] = NoRef \/ pending_changes(p)
             THEN /\ Raise(p, "set_branch", "RepositoryError", 167)
                  /\ UNCHANGED head
             ELSE /\ head' = [head EXCEPT ![p] = ref]
                  /\ Finish(p, "set_branch", "ok")
    /\ UNCHANGED <<refs, commits, index>>

\* Workspace.set_branch(name) -> Workspace.update_index(ref)
set_branch(p, name) ==
    /\ pc[p] = "idle"
    /\ LET ref == HeadRef(name)
       IN  IF refs[ref] = NoRef
             THEN /\ Raise(p, "set_branch", "RepositoryError", 167)
                  /\ UNCHANGED <<head, index>>
             ELSE IF pending_changes(p)
             THEN /\ Raise(p, "set_branch", "RepositoryError", 183)
                  /\ UNCHANGED <<head, index>>
             ELSE /\ head' = [head EXCEPT ![p] = ref]
                  /\ index' = [index EXCEPT ![p] = BranchTree(ref)]
                  /\ Finish(p, "set_branch", "ok")
    /\ UNCHANGED <<refs, commits>>

\* [mutant of commit_entry] the has_changes() test is left out
commit_entry_unguarded(p, msg, cos) ==
    /\ pc' = [pc EXCEPT ![p] = "commit_parents"]
    /\ loc' = [loc EXCEPT ![p] =
                 [@ EXCEPT !.msg = msg, !.cos = cos, !.tip0 = refs[head[p]],
                           !.ctip = NoRef, !.idx0 = EmptyTree,
                           !.ncommit = @ + 1, !.added = JustAdded(p)]]
    /\ UNCHANGED last

\* Workspace.commit, line 246: the has_changes() test.  Run by a call of
\* commit() and by the normal exit of a commit_on_success block (line 224).
commit_entry(p, msg, cos) ==
    IF ~has_changes(p)
      THEN Finish(p, IF cos THEN "commit_on_success" ELSE "commit", "None")
      ELSE /\ pc' = [pc EXCEPT ![p] = "commit_parents"]
           /\ loc' = [loc EXCEPT ![p] =
                        [@ EXCEPT !.msg = msg, !.cos = cos,
                                  !.tip0 = refs[head[p]],
                                  !.ctip = NoRef, !.idx0 = EmptyTree,
                                  !.ncommit = @ + 1,
                                  !.added = JustAdded(p)]]
           /\ UNCHANGED last

\* Workspace.commit(message)
commit(p, msg) ==
    /\ pc[p] = "idle"
    /\ commit_entry(p, msg, FALSE)
    /\ UNCHANGED <<refs, commits, head, index>>

\* [mutant of branch_parents] the branch is not resolved
branch_parents_none(p) == <<>>

\* Workspace.commit, lines 248-250: parents from the resolved branch
branch_parents(p) ==
    IF refs[head[p]] = NoRef THEN <<>> ELSE <<refs[head[p]]>>

commit_parents(p) ==
    /\ pc[p] = "commit_parents"
    /\ pc' = [pc EXCEPT ![p] = "commit_create"]
    /\ loc' = [loc EXCEPT ![p].parents = branch_parents(p)]
    /\ UNCHANGED <<refs, commits, head, index, last>>

\* repo.create_commit(ref, author, committer, message, tree, parents):
\* writes the commit object and points ref at it
new_commit(tree, parents, msg) ==
    [tree |-> tree, parents |-> parents, message |-> msg]

\* [mutant of commit_tree] the tree of the branch is committed again
commit_tree_branch(p) == BranchTree(head[p])

\* Workspace.commit, line 251: the tree passed to create_commit
commit_tree(p) == index[p]

\* [mutant of commit_create] the reference is repointed only if it still
\* points at the parent that was resolved: a compare-and-swap
commit_create_cas(p) ==
    /\ pc[p] = "commit_create"
    /\ Len(commits) < MaxCommits
    /\ IF loc[p].parents = branch_parents(p)
         THEN /\ commits' = Append(commits,
                     new_commit(commit_tree(p), loc[p].parents, loc[p].msg))
              /\ refs' = [refs EXCEPT ![head[p]] = Len(commits) + 1]
              /\ Finish(p, IF loc[p].cos THEN "commit_on_success"
                                         ELSE "commit", "commit")
         ELSE /\ Raise(p, "commit", "GitError", 280)
              /\ UNCHANGED <<refs, commits>>
    /\ UNCHANGED <<head, index>>

\* Workspace.commit, line 251 -> Workspace.create_commit, line 280
commit_create(p) ==
    /\ pc[p] = "commit_create"
    /\ Len(commits) < MaxCommits
    /\ commits' = Append(commits,
                         new_commit(commit_tree(p), loc[p].parents, loc[p].msg))
    /\ refs' = [refs EXCEPT ![head[p]] = Len(commits) + 1]
    /\ Finish(p, IF loc[p].cos THEN "commit_on_success" ELSE "commit", "commit")
    /\ UNCHANGED <<head, index>>

\* Whether a pygit2 Reference has the attribute oid that line 275 reads.
\* References have had target and no oid since pygit2 0.19, the version the
\* file is written against (line 240; line 157 takes the oid from target);
\* an older pygit2 has it.
ReferenceHasOid == {TRUE, FALSE}

\* Workspace.create_commit, lines 269-275: parents from the resolved ref
ref_parents(p, ref) ==
    IF refs[ref] = NoRef THEN <<>> ELSE <<refs[ref]>>

\* Workspace.create_commit(ref, tree, message) without parents, lines
\* 269-275: the reference is looked up
create_commit_call(p, ref, tree, msg, hasOid) ==
    /\ pc[p] = "idle"
    /\ IF refs[ref] # NoRef /\ ~hasOid
         THEN Raise(p, "create_commit", "AttributeError", 275)
         ELSE /\ pc' = [pc EXCEPT ![p] = "create_commit"]
              /\ loc' = [loc EXCEPT ![p] =
                           [NoLoc EXCEPT !.ref = ref, !.tree = tree,
                                         !.msg = msg, !.tip0 = refs[ref],
                                         !.parents = ref_parents(p, ref)]]
              /\ UNCHANGED last
    /\ UNCHANGED <<refs, commits, head, index>>

\* Workspace.create_commit, line 280: the commit is created and ref is
\* repointed
create_commit(p) ==
    /\ pc[p] = "create_commit"
    /\ Len(commits) < MaxCommits
    /\ commits' = Append(commits,
                         new_commit(loc[p].tree, loc[p].parents, loc[p].msg))
    /\ refs' = [refs EXCEPT ![loc[p].ref] = Len(commits) + 1]
    /\ End(p, "create_commit", <<loc[p].ref, loc[p].tree>>, "commit", 0)
    /\ UNCHANGED <<head, index>>

\* [mutant of cos_refuses] no test of the state on entry
cos_refuses_never(p) == FALSE

\* Workspace.commit_on_success, line 217: "ensure a clean state"
cos_refuses(p) == has_changes(p)

\* Workspace.commit_on_success, lines 217-222: entering the block
cos_enter(p, msg) ==
    /\ pc[p] = "idle"
    /\ IF cos_refuses(p)
         THEN Raise(p, "commit_on_success", "RepositoryError", 220)
         ELSE /\ pc' = [pc EXCEPT ![p] = "cos_body"]
              /\ loc' = [loc EXCEPT ![p] =
                           [NoLoc EXCEPT !.cosmsg = msg, !.cos = TRUE,
                                         !.ctip = refs[head[p]],
                                         !.idx0 = index[p]]]
              /\ UNCHANGED last
    /\ UNCHANGED <<refs, commits, head, index>>

\* the block ends normally: the generator resumes at line 224
cos_exit(p) ==
    /\ pc[p] = "cos_body"
    /\ commit_entry(p, loc[p].cosmsg, TRUE)
    /\ UNCHANGED <<refs, commits, head, index>>

\* [mutant of cos_raise] the commit is run on every exit of the block
cos_raise_commits(p) ==
    /\ pc[p] = "cos_body"
    /\ commit_entry(p, loc[p].cosmsg, TRUE)
    /\ UNCHANGED <<refs, commits, head, index>>

\* the block raises: the exception is thrown into the generator at the
\* yield of line 222 and leaves it, line 224 is not run
cos_raise(p) ==
    /\ pc[p] = "cos_body"
    /\ Raise(p, "commit_on_success", "BodyError", 222)
    /\ UNCHANGED <<refs, commits, head, index>>

\* Workspace.lock(id), line 294: start_time = time()
lock_call(p, id) ==
    /\ pc[p] = "idle"
    /\ pc' = [pc EXCEPT ![p] = "lock_poll"]
    /\ loc' = [loc EXCEPT ![p] = [NoLoc EXCEPT !.lid = id]]
    /\ UNCHANGED <<refs, commits, head, index, last>>

\* Workspace.lock, lines 296-300, run when locked(id) is true.  A Workspace
\* has no attribute path, so formatting the timeout message raises
\* AttributeError before LockWaitTimeoutExceeded is built (line 298); the
\* module binds the name time to the function time.time ("from time import
\* time"), which has no attribute sleep (line 300).
lock_wait(p, timedOut) ==
    IF timedOut
      THEN End(p, "lock", loc[p].lid, "AttributeError", 298)
      ELSE End(p, "lock", loc[p].lid, "AttributeError", 300)

\* Workspace.lock, line 295: one test of the acquire loop.  timedOut is the
\* value of "time() - start_time > self.config.LOCK_WAIT_TIMEOUT".
lock_poll(p) ==
    /\ pc[p] = "lock_poll"
    /\ IF locked(loc[p].lid)
         THEN \E timedOut \in BOOLEAN : lock_wait(p, timedOut)
         ELSE /\ pc' = [pc EXCEPT ![p] = "lock_create"]
              /\ UNCHANGED <<loc, last>>
    /\ UNCHANGED <<refs, commits, head, index>>

\* Workspace.lock, lines 303-304: the empty blob is written, then
\* "self.create_reference" is looked up on the Workspace, which defines no
\* such attribute (the store's method is self.repo.create_reference):
\* AttributeError, no reference is created and the body is not entered.
lock_create(p) ==
    /\ pc[p] = "lock_create"
    /\ End(p, "lock", loc[p].lid, "AttributeError", 304)
    /\ UNCHANGED <<refs, commits, head, index>>

Next ==
    \E p \in Procs :
        \/ \E r \in HeadRefs : Construct(p, r)
        \/ \E f \in FullPaths, c \in Contents : add_blob(p, f, c)
        \/ \E n \in Branches, sp \in Branches \cup {""} : create_branch(p, n, sp)
        \/ \E n \in Branches : set_branch(p, n)
        \/ \E m \in Messages : commit(p, m)
        \/ commit_parents(p)
        \/ commit_create(p)
        \/ \E m \in Messages : cos_enter(p, m)
        \/ cos_exit(p)
        \/ cos_raise(p)

Spec == Init /\ [][Next]_vars

\* Branch management: the instances construct, add, commit, create branches
\* and switch between them (no commit_on_success blocks).
NextBranch ==
    \E p \in Procs :
        \/ \E r \in HeadRefs : Construct(p, r)
        \/ \E f \in FullPaths, c \in Contents : add_blob(p, f, c)
        \/ \E n \in Branches, sp \in Branches \cup {""} : create_branch(p, n, sp)
        \/ \E n \in Branches : set_branch(p, n)
        \/ \E m \in Messages : commit(p, m)
        \/ commit_parents(p)
        \/ commit_create(p)

SpecBranch == Init /\ [][NextBranch]_vars

\* Transactions: the instances construct, add and commit, directly and in
\* commit_on_success blocks, each on the branch it was constructed on.
NextTxn ==
    \E p \in Procs :
        \/ \E r \in HeadRefs : Construct(p, r)
        \/ \E f \in FullPaths, c \in Contents : add_blob(p, f, c)
        \/ \E m \in Messages : commit(p, m)
        \/ commit_parents(p)
        \/ commit_create(p)
        \/ \E m \in Messages : cos_enter(p, m)
        \/ cos_exit(p)
        \/ cos_raise(p)

SpecTxn == Init /\ [][NextTxn]_vars

\* The lock protocol, on a store where other users of the repository may
\* have left lock references.
InitLock == \E held \in SUBSET LockIds : InitStore(held)

NextLock ==
    \E p \in Procs :
        \/ \E r \in HeadRefs : Construct(p, r)
        \/ \E f \in FullPaths, c \in Contents : add_blob(p, f, c)
        \/ \E i \in LockIds : lock_call(p, i)
        \/ lock_poll(p)
        \/ lock_create(p)

SpecLock == InitLock /\ [][NextLock]_vars

\* The operations on the commits of a branch: add, commit and walk, without
\* the operations that create and switch branches.
NextCommit ==
    \E p \in Procs :
        \/ \E r \in HeadRefs : Construct(p, r)
        \/ \E f \in FullPaths, c \in Contents : add_blob(p, f, c)
        \/ \E f \in FullPaths, c \in Contents :
              add(p, Split(f)[1], <<<<Split(f)[2], c>>>>)
        \/ \E m \in Messages : commit(p, m)
        \/ commit_parents(p)
        \/ commit_create(p)
        \/ walk(p)

SpecCommit == Init /\ [][NextCommit]_vars

\* Calls of create_commit(ref, tree, message) without parents, by instances
\* constructed on the two branches.
NextCreate ==
    \E p \in Procs :
        \/ \E r \in HeadRefs : Construct(p, r)
        \/ \E r \in HeadRefs, t \in Tree, m \in Messages :
              \E hasOid \in ReferenceHasOid :
                 create_commit_call(p, r, t, m, hasOid)
        \/ create_commit(p)

SpecCreate == Init /\ [][NextCreate]_vars

\* Every operation but commit_on_success, on a store without lock
\* references, with one lock id; add is called through add_blob.
FrameLock == CHOOSE i \in LockIds : TRUE

NextFrame ==
    \/ NextBranch
    \/ \E p \in Procs :
          \/ lock_call(p, FrameLock)
          \/ lock_poll(p)
          \/ lock_create(p)

SpecFrame == Init /\ [][NextFrame]_vars

\* The tree builder alone: instances constructed on the unborn master, whose
\* index ranges over the trees of TreePaths, and the calls of add of one of
\* them.
Builder == CHOOSE p \in Procs : TRUE

InitTree ==
    /\ refs = [r \in RefNames |-> NoRef]
    /\ commits = <<>>
    /\ head = [p \in Procs |-> HeadRef("master")]
    /\ index = [p \in Procs |-> [q \in TreePaths |-> NoEntry]]
    /\ pc = [p \in Procs |-> "idle"]
    /\ loc = [p \in Procs |-> NoLoc]
    /\ last = [p |-> Builder, op |-> "init", arg |-> "", out |-> "ok",
               line |-> 0]

NextTree ==
    \E dir \in TreeDirs :
        \E entries \in EntryLists(dir) : add(Builder, dir, entries)

SpecTree == InitTree /\ [][NextTree]_vars

\* ------------------------------------------------------------ properties
InLockBody(p, id) == pc[p] = "lock_body" /\ loc[p].lid = id
TipParents(tip) == IF tip = NoRef THEN <<>> ELSE <<tip>>
Calls(p, op, out) == last.p = p /\ last.op = op /\ last.out = out

C2_LaterLockAcquires ==
    [][\A p \in Procs, id \in LockIds :
         (lock_create(p) /\ loc[p].lid = id /\ last.op = "lock" /\ last.arg = id) =>
           /\ locked(id)'
           /\ InLockBody(p, id)']_vars

\* C3: a lock(id) call that polls a held lock either goes on polling or, the
\* timeout exceeded, raises LockWaitTimeoutExceeded; it does not enter its
\* body and it leaves the set of references as it was.
C3_HeldLockTimesOut ==
    [][\A p \in Procs, id \in LockIds :
         (lock_poll(p) /\ loc[p].lid = id /\ locked(id)) =>
           /\ pc'[p] = "lock_poll" \/ Calls(p, "lock", "LockWaitTimeoutExceeded")'
           /\ ~InLockBody(p, id)'
           /\ refs' = refs]_vars

\* C4: set_branch(name) called while has_changes() is true raises
\* RepositoryError and leaves head and index as they were.
C4_SetBranchRefusesPending ==
    [][\A p \in Procs, n \in Branches :
         (set_branch(p, n) /\ has_changes(p)) =>
           /\ Calls(p, "set_branch", "RepositoryError")'
           /\ head' = head
           /\ index' = index]_vars

\* C5 (as stated): a commit() that follows an add_blob of the same instance
\* goes on to create a commit; the step that creates it adds exactly one
\* commit, points head at it, and its sole parent is the commit head pointed
\* to before the call (no parent on an unborn branch).
C5_CommitAfterAdd ==
    [][\A p \in Procs :
         /\ \A m \in Messages :
              (commit(p, m) /\ last.p = p /\ last.op = "add_blob") =>
                pc'[p] = "commit_parents"
         /\ commit_create(p) =>
              /\ Len(commits') = Len(commits) + 1
              /\ refs'[head[p]] = Len(commits')
              /\ commits'[Len(commits')].parents = TipParents(loc[p].tip0)]_vars

\* C5 (amended): a commit() called while has_changes() is true goes on to
\* create a commit; the step that creates it adds exactly one commit, whose
\* tree is index, and points head at it; its sole parent is the commit head
\* pointed to before the call (no parent on an unborn branch) whenever no
\* other instance has moved head during the call.
C5_CommitWhenChanged ==
    [][\A p \in Procs :
         /\ \A m \in Messages :
              (commit(p, m) /\ has_changes(p)) => pc'[p] = "commit_parents"
         /\ commit_create(p) =>
              /\ Len(commits') = Len(commits) + 1
              /\ SubSeq(commits', 1, Len(commits)) = commits
              /\ refs'[head[p]] = Len(commits')
              /\ commits'[Len(commits')].tree = index[p]
              /\ refs[head[p]] = loc[p].tip0 =>
                   commits'[Len(commits')].parents = TipParents(loc[p].tip0)]_vars

\* a commit() has just created a commit on top of an earlier one
C5_Witness ==
    /\ last.op = "commit" /\ last.out = "commit"
    /\ Len(commits) = 2
    /\ refs[head[last.p]] = 2
    /\ commits[2].parents = <<1>>

\* C6: commit() called while has_changes() is false returns None and creates
\* no commit, creates or moves no reference and leaves head and index.
C6_CommitNoChangesIsNoOp ==
    [][\A p \in Procs, m \in Messages :
         (commit(p, m) /\ ~has_changes(p)) =>
           /\ Calls(p, "commit", "None")'
           /\ commits' = commits /\ refs' = refs
           /\ head' = head /\ index' = index]_vars

\* commit() has just returned None on a branch that holds a commit
C6_Witness ==
    /\ last.op = "commit" /\ last.out = "None"
    /\ refs[head[last.p]] # NoRef

\* C7: has_changes() is false right after a Workspace is constructed on an
\* existing branch, and right after the step of commit() that creates a
\* commit, when the tree of head's new commit is index.
C7_CleanAfterInitAndCommit ==
    [][\A p \in Procs :
         /\ \A r \in HeadRefs :
              (Construct(p, r) /\ refs[r] # NoRef) => ~has_changes(p)'
         /\ commit_create(p) =>
              /\ ~has_changes(p)'
              /\ commits'[refs'[head'[p]]].tree = index'[p]]_vars

\* a Workspace has just been constructed on a branch that holds a commit
C7_Witness ==
    /\ last.op = "init"
    /\ refs[head[last.p]] # NoRef
    /\ index[last.p] # EmptyTree

\* C8: entering commit_on_success while has_changes() is true raises
\* RepositoryError before the body runs; no commit is created and head,
\* index and the references are unchanged.
C8_CosRefusesDirty ==
    [][\A p \in Procs, m \in Messages :
         (cos_enter(p, m) /\ has_changes(p)) =>
           /\ Calls(p, "commit_on_success", "RepositoryError")'
           /\ pc'[p] = "idle"
           /\ commits' = commits /\ refs' = refs
           /\ head' = head /\ index' = index]_vars

\* commit_on_success has just refused to open over pending changes
C8_Witness ==
    /\ last.op = "commit_on_success" /\ last.out = "RepositoryError"
    /\ has_changes(last.p)

C11_AddBlobCommitRoundTrip ==
    [][\A p \in Procs, f \in FullPaths, c \in Contents :
         /\ (pc[p] = "commit_create" /\ loc[p].added = <<f, c>>
               /\ commit_create(p)) =>
              /\ refs'[head'[p]] = Len(commits')
              /\ commits'[Len(commits')].tree[f] = c
              /\ index'[p][f] = commits'[Len(commits')].tree[f]
         /\ (pc[p] = "idle" /\ JustAdded(p) = <<f, c>>
               /\ (\E m \in Messages : commit(p, m))
               /\ last'.out = "None") =>
              /\ refs'[head'[p]] \in 1..Len(commits')
              /\ commits'[refs'[head'[p]]].tree[f] = c
              /\ index'[p][f] = c]_vars

\* a commit() called right after add_blob has created a commit on top of
\* another one that holds another content at the path
C11_Witness ==
    /\ last.op = "commit" /\ last.out = "commit"
    /\ Len(commits) = 2
    /\ commits[2].parents = <<1>>
    /\ \E f \in FullPaths :
         /\ commits[2].tree[f] \in Contents
         /\ commits[1].tree[f] \in Contents
         /\ commits[2].tree[f] # commits[1].tree[f]
         /\ index[last.p][f] = commits[2].tree[f]

\* the blob that a list of entries gives a name: the last entry of that name
Given(entries, n) ==
    LET at == {i \in 1..Len(entries) : entries[i][1] = n}
    IN  entries[CHOOSE i \in at : \A j \in at : j <= i][2]

GivenNames(entries) == {entries[i][1] : i \in 1..Len(entries)}

\* C12: after add(path, entries) on valid inputs, reading the path from the
\* new index returns the given entries (a name given twice has its last
\* blob, a name that was there is replaced) and the other entries at the
\* path as they were; every path that is neither on the way to the path nor
\* a given entry has the same object id as before.
C12_AddReadBack ==
    [][(last'.op = "add" /\ last'.out = "ok") =>
        LET p == last'.p
            dir == last'.arg[1]
            entries == last'.arg[2]
        IN  (pc[p] = "idle" /\ add(p, dir, entries)) =>
              /\ \A n \in GivenNames(entries) :
                   ObjectId(index'[p], Join(dir, n)) =
                     [kind |-> "blob", blob |-> Given(entries, n), sub |-> {}]
              /\ \A n \in NamesAt(dir) \ GivenNames(entries) :
                   ObjectId(index'[p], Join(dir, n)) =
                     ObjectId(index[p], Join(dir, n))
              /\ \A q \in TreePaths \cup TreeDirs :
                   (/\ ~IsPrefix(q, dir)
                    /\ \A n \in GivenNames(entries) :
                         ~IsPrefix(Join(dir, n), q)) =>
                     ObjectId(index'[p], q) = ObjectId(index[p], q)]_vars

\* an add of two entries of one name and two blobs into a directory, which
\* holds the second blob at that name, beside another name and a blob at the
\* root
C12_Witness ==
    /\ last.op = "add" /\ last.out = "ok"
    /\ last.arg[1] = <<"d">>
    /\ Len(last.arg[2]) = 2
    /\ last.arg[2][1][1] = "b" /\ last.arg[2][2][1] = "b"
    /\ last.arg[2][1][2] # last.arg[2][2][2]
    /\ index[last.p][<<"d", "b">>] = last.arg[2][2][2]
    /\ index[last.p][<<"d", "c">>] # NoEntry
    /\ index[last.p][<<"a">>] # NoEntry

\* every commit but the first has the commit made before it as sole parent
Sequential ==
    \A c \in 1..Len(commits) :
       commits[c].parents = IF c = 1 THEN <<>> ELSE <<c - 1>>

\* C13: walk() on a branch yields its tip first, then every commit's parent
\* after it down to a commit without parent, and no more (a finite sequence
\* without repetition); on a branch built by N sequential commits that is the
\* N commits, newest first; every call starts at the tip the branch has at
\* that call.
C13_WalkNewestFirst ==
    [][(last'.op = "walk" /\ last'.out = "ok") =>
        LET p == last'.p
            w == last'.arg
            tip == refs[head[p]]
        IN  (pc[p] = "idle" /\ walk(p)) =>
              /\ Len(w) \in 1..Len(commits)
              /\ w[1] = tip
              /\ \A i \in 1..(Len(w) - 1) :
                   commits[w[i]].parents = <<w[i + 1]>>
              /\ commits[w[Len(w)]].parents = <<>>
              /\ (Sequential /\ tip = Len(commits)) =>
                   w = [i \in 1..Len(commits) |-> Len(commits) + 1 - i]]_vars

\* a walk on a branch built by two sequential commits has yielded the two
C13_Witness ==
    /\ last.op = "walk" /\ last.out = "ok"
    /\ Sequential
    /\ last.arg = <<2, 1>>

\* C14: parent resolution and the repoint are separate steps without a
\* compare-and-swap: when another instance has moved the reference between
\* the two, the repoint is made all the same, to a commit whose parents are
\* the ones resolved earlier and not the commit the reference pointed to
\* right before, and that commit is not reachable from the new tip.
C14_RepointIsNoCompareAndSwap ==
    [][\A p \in Procs :
         (/\ pc[p] = "commit_create"
          /\ loc[p].parents # TipParents(refs[head[p]])
          /\ commit_create(p)) =>
           LET new == Len(commits) + 1
           IN  /\ refs'[head[p]] = new
               /\ commits'[new].parents = loc[p].parents
               /\ commits'[new].parents # <<refs[head[p]]>>
               /\ refs[head[p]] \notin AncestorsIn(commits', new)]_vars

\* The lost update: two commits were made on master, the only branch there
\* is, by two instances; master points at the second, which has no parent,
\* and the first is unreachable from it.
C14_Witness ==
    /\ Len(commits) = 2
    /\ refs[HeadRef("master")] = 2
    /\ refs[HeadRef("dev")] = NoRef
    /\ head[1] = HeadRef("master") /\ head[2] = HeadRef("master")
    /\ last.op = "commit" /\ last.out = "commit"
    /\ commits[2].parents = <<>>
    /\ 1 \notin Ancestors(2)

\* C15: set_branch(name) called without pending changes on a branch that
\* exists sets head to the reference of the branch and index to the tree of
\* its commit, so that has_changes() is false afterwards; on a branch that
\* does not exist it raises RepositoryError and leaves head and index.
C15_SetBranchClean ==
    [][(last'.op = "set_branch") =>
        \A p \in Procs, n \in Branches :
          (pc[p] = "idle" /\ last'.p = p /\ set_branch(p, n)) =>
            /\ (~has_changes(p) /\ refs[HeadRef(n)] # NoRef) =>
                 /\ Calls(p, "set_branch", "ok")'
                 /\ head'[p] = HeadRef(n)
                 /\ index'[p] = commits[refs[HeadRef(n)]].tree
                 /\ ~has_changes(p)'
            /\ refs[HeadRef(n)] = NoRef =>
                 /\ Calls(p, "set_branch", "RepositoryError")'
                 /\ head' = head /\ index' = index]_vars

\* an instance has switched to dev, whose tree is not the tree of master
C15_Witness ==
    /\ Calls(last.p, "set_branch", "ok")
    /\ head[last.p] = HeadRef("dev")
    /\ refs[HeadRef("master")] # NoRef
    /\ BranchTree(HeadRef("master")) # BranchTree(HeadRef("dev"))
    /\ index[last.p] = BranchTree(HeadRef("dev"))

\* C16: constructing a Workspace on a head that exists sets index to the
\* tree of its commit; on a head that does not exist it sets index to the
\* tree without entries; either way no reference and no commit is created.
\* The commit that is made on a head while it does not exist yet, the
\* first one on that head, has no parent.
C16_ConstructOnBranch ==
    [][\A p \in Procs :
         /\ \A r \in HeadRefs :
              (pc[p] = "new" /\ Construct(p, r)) =>
                /\ head'[p] = r
                /\ refs' = refs /\ commits' = commits
                /\ IF refs[r] # NoRef
                     THEN index'[p] = commits[refs[r]].tree
                     ELSE /\ \A q \in FullPaths : index'[p][q] = NoEntry
                          /\ refs'[r] = NoRef
         /\ (pc[p] = "commit_create" /\ refs[head[p]] = NoRef
               /\ commit_create(p)) =>
              /\ refs'[head[p]] = Len(commits) + 1
              /\ commits'[Len(commits) + 1].parents = <<>>]_vars

\* master holds a commit; an instance constructed on dev, which did not
\* exist, has made the first commit on dev, which has no parent
C16_Witness ==
    /\ Calls(last.p, "commit", "commit")
    /\ head[last.p] = HeadRef("dev")
    /\ refs[HeadRef("master")] = 1
    /\ refs[HeadRef("dev")] = 2
    /\ commits[2].parents = <<>>

\* C17: add and add_blob change the index of their instance and nothing
\* else: the entry is read from index at its path right away, head, every
\* reference, the commits and the other instances' index are as before, and
\* an entry that differs from the branch's tree makes has_changes() true.
C17_AddChangesIndexOnly ==
    [][(last'.op \in {"add", "add_blob"}) =>
        \A p \in Procs, f \in FullPaths, c \in Contents :
          (/\ pc[p] = "idle" /\ last'.p = p
           /\ \/ add_blob(p, f, c)
              \/ add(p, Split(f)[1], <<<<Split(f)[2], c>>>>)) =>
            /\ index'[p][f] = c
            /\ head' = head /\ refs' = refs /\ commits' = commits
            /\ \A q \in Procs \ {p} : index'[q] = index[q]
            /\ c # BranchTree(head[p])[f] =>
                 /\ has_changes(p)'
                 /\ BranchTree(head[p])' = BranchTree(head[p])]_vars

\* an add_blob on a branch that holds a commit has put into the index a
\* content that the branch's tree does not hold: a pending change
C17_Witness ==
    /\ last.op = "add_blob" /\ last.out = "ok"
    /\ refs[head[last.p]] # NoRef
    /\ index[last.p][last.arg[1]] = last.arg[2]
    /\ BranchTree(head[last.p])[last.arg[1]] # last.arg[2]
    /\ has_changes(last.p)

\* C18: the step of create_commit(ref, tree) called without parents that
\* follows the lookup of ref creates a commit of the given tree and points
\* ref at it; and a call on a ref that exists gets there and gives the
\* commit, as sole parent, the commit ref pointed to at the lookup, a call
\* on a ref that does not exist gives it no parent.
C18_CreateCommitResolvesRef ==
    [][\A p \in Procs :
         /\ (pc[p] = "create_commit" /\ create_commit(p)) =>
              LET new == Len(commits) + 1
              IN  /\ refs'[loc[p].ref] = new
                  /\ commits'[new].tree = loc[p].tree
                  /\ commits'[new].parents = TipParents(loc[p].tip0)
         /\ \A r \in HeadRefs, t \in Tree, m \in Messages :
              \A hasOid \in ReferenceHasOid :
                (pc[p] = "idle" /\ create_commit_call(p, r, t, m, hasOid)) =>
                   /\ pc'[p] = "create_commit"
                   /\ loc'[p].parents = TipParents(refs[r])]_vars

\* C19: while lock(a) is held and lock(b) is free, b another id than a, a
\* lock(b) call finds locked(b) false on its poll and goes on to create the
\* reference without waiting, and its create step takes it into the body of
\* lock(b) while lock(a) stays held; the steps of lock leave every branch
\* reference and every instance's head and index as they were.
C19_LocksIndependent ==
    [][\A p \in Procs, b \in LockIds :
         \A a \in LockIds \ {b} :
           (locked(a) /\ ~locked(b) /\ loc[p].lid = b) =>
             /\ lock_poll(p) => pc'[p] = "lock_create"
             /\ lock_create(p) =>
                  /\ InLockBody(p, b)'
                  /\ locked(b)'
                  /\ locked(a)'
             /\ (lock_poll(p) \/ lock_create(p)) =>
                  /\ \A r \in HeadRefs : refs'[r] = refs[r]
                  /\ head' = head /\ index' = index]_vars

\* C20: a step that changes the head or the index of an instance is that
\* instance's construction or its own add, add_blob or set_branch: no step
\* of another instance, and no commit, create_branch or lock of its own,
\* changes them.
C20_HeadIndexOwnedByInstance ==
    [][\A p \in Procs :
         (head'[p] # head[p] \/ index'[p] # index[p]) =>
           \/ \E r \in HeadRefs : Construct(p, r)
           \/ \E f \in FullPaths, c \in Contents :
                \/ add_blob(p, f, c)
                \/ add(p, Split(f)[1], <<<<Split(f)[2], c>>>>)
           \/ \E n \in Branches : set_branch(p, n)]_vars

\* An instance has just created the second commit, on its branch; the other
\* instance, on another branch, which points at the first commit, still
\* holds the tree of that commit as index, which is not the index of the
\* first.
C20_Witness ==
    /\ last.op = "commit" /\ last.out = "commit"
    /\ Len(commits) = 2
    /\ \E q \in Procs \ {last.p} :
         /\ pc[q] = "idle"
         /\ head[q] # head[last.p]
         /\ refs[head[q]] = 1
         /\ index[q] = commits[1].tree
         /\ index[q] # index[last.p]
    /\ refs[head[last.p]] = 2
====
